---- MODULE Spec2Model ----
(***************************************************************************)
(* Bus reservation backend (Express + Mongoose): routes, trips, passengers *)
(* and tickets, with the booking / cancellation handlers of the ticket     *)
(* router and the delete guards of the bus, trip and passenger routers.    *)
(*                                                                         *)
(* Every handler is an async function: it runs without interruption up to  *)
(* its next `await`, and each awaited store call (findById, findOne,       *)
(* findByIdAndUpdate, save, findByIdAndDelete) is one atomic operation of  *)
(* the store.  A handler is therefore modelled as one action per awaited   *)
(* store call, the synchronous code that follows the call included.        *)
(* Handlers of different requests interleave at these points.              *)
(*                                                                         *)
(* Encodings.  An ObjectId is a positive integer; Malformed is a string    *)
(* that is no ObjectId and Missing an absent field.  A nullable document   *)
(* (the result of findById / findOne) is a set: {} for null, {doc}         *)
(* otherwise.  Request bodies carry numbers as text (sequences of          *)
(* characters), converted by ParseInt / ParseFloat as the handler does;    *)
(* fares are counted in tenths of a currency unit.  An update body is a    *)
(* set of <<field, value>> pairs and of <<"$set", field, value>> triples   *)
(* (the update operator, as a JSON body can carry it).  departure_time and *)
(* the passenger's gender, contact and address take part in no decision of *)
(* the handlers and are not carried.                                       *)
(***************************************************************************)
EXTENDS Integers, Sequences, FiniteSets, TLC

VARIABLES
    buses,       \* Bus collection:       _id -> [total_seats, fare]
    trips,       \* Trip collection:      _id -> [bus_id, total_seats, available_seats, date]
    passengers,  \* Passenger collection: _id -> [owner_id, age, name]
    tickets,     \* Ticket collection:    _id -> [trip_id, passenger_id, seat_number, fare, journey_date]
    nextId,      \* ObjectIds handed out so far, per collection (ids are never reused)
    rq,          \* the requests in flight: slot -> the handler's arguments, locals and position
    pre          \* the store before the first request (kept to compare with; never written)

vars == <<buses, trips, passengers, tickets, nextId, rq, pre>>
store == <<buses, trips, passengers, tickets>>

----------------------------------------------------------------------------
(* Bounds of the model *)

NReq == 2            \* requests of a run: handlers that can be in flight at once
MaxTickets == 2      \* largest ticket id a request names
MaxTrips == 1        \* largest trip id a request names, but for one that does not exist
MaxBuses == 1        \* largest bus id a request names, but for one that does not exist
MaxPassengers == 2   \* largest passenger id a request names, but for one that does not exist
MaxSeats == 2        \* largest total_seats an admin enters

(* Encodings of values that are not ObjectIds / numbers *)
Missing == 0         \* an absent request field (undefined)
Malformed == -1      \* a string that is not an ObjectId
NaN == -1000         \* the result of parseInt / parseFloat on text without a number

Req == 1..NReq

Users ==
    { [userId |-> 1, role |-> "user"],
      [userId |-> 2, role |-> "user"],
      [userId |-> 3, role |-> "admin"] }

Admin == [userId |-> 3, role |-> "admin"]

NoUser == [userId |-> 0, role |-> "none"]

Dates == {1, 2}
Fares == {50, 75}          \* tenths: 5.0 and 7.5

----------------------------------------------------------------------------
(* Store primitives *)

\* Model.findById(id) / findOne: the document, or null
Lookup(coll, id) == IF id \in DOMAIN coll THEN {coll[id]} ELSE {}

\* document.save() of a new document / findByIdAndUpdate's write
Put(coll, id, doc) ==
    [k \in (DOMAIN coll) \cup {id} |-> IF k = id THEN doc ELSE coll[k]]

\* Model.findByIdAndDelete(id)
Remove(coll, id) == [k \in (DOMAIN coll) \ {id} |-> coll[k]]

The(s) == CHOOSE x \in s : TRUE

\* mongoose.Types.ObjectId.isValid(id)
isValidObjectId(id) == id > 0

\* A request body: a set of <<field, value>> pairs
Has(body, f) == \E p \in body : p[1] = f
Get(body, f) == (CHOOSE p \in body : p[1] = f)[2]
Without(body, fs) == {p \in body : p[1] \notin fs}

\* the update Mongoose sends for a body: the top-level keys that are no
\* update operators are set operations, next to those under "$set"
Cast(body) ==
    {p \in body : p[1] # "$set"} \cup {<<p[2], p[3]>> : p \in {q \in body : q[1] = "$set"}}

\* findByIdAndUpdate(id, body): the fields set by the update that the schema
\* knows replace those of the document
Apply(doc, body) ==
    [f \in DOMAIN doc |-> IF Has(Cast(body), f) THEN Get(Cast(body), f) ELSE doc[f]]

----------------------------------------------------------------------------
(* parseInt / parseFloat on the text of a request field *)

Digits == {"0", "1", "2", "3", "4", "5", "6", "7", "8", "9"}

DigitVal(c) ==
    CASE c = "0" -> 0 [] c = "1" -> 1 [] c = "2" -> 2 [] c = "3" -> 3
      [] c = "4" -> 4 [] c = "5" -> 5 [] c = "6" -> 6 [] c = "7" -> 7
      [] c = "8" -> 8 [] c = "9" -> 9

\* the length of the longest prefix of s made of digits
RECURSIVE DigitPrefix(_)
DigitPrefix(s) ==
    IF s = <<>> \/ Head(s) \notin Digits THEN 0 ELSE 1 + DigitPrefix(Tail(s))

\* the value of a sequence of digits
RECURSIVE DigitsValue(_)
DigitsValue(s) ==
    IF s = <<>> THEN 0 ELSE 10 * DigitsValue(SubSeq(s, 1, Len(s) - 1)) + DigitVal(s[Len(s)])

\* parseInt(text): an optional sign, then the leading digits; NaN without any
ParseInt(s) ==
    LET neg  == s # <<>> /\ Head(s) = "-"
        body == IF neg THEN Tail(s) ELSE s
        n    == DigitPrefix(body)
    IN  IF n = 0 THEN NaN
        ELSE (IF neg THEN -1 ELSE 1) * DigitsValue(SubSeq(body, 1, n))

\* parseFloat(text), in tenths: the leading digits, then "." and one digit
\* when they follow; NaN without a leading number
ParseFloat(s) ==
    LET neg  == s # <<>> /\ Head(s) = "-"
        body == IF neg THEN Tail(s) ELSE s
        n    == DigitPrefix(body)
        int  == DigitsValue(SubSeq(body, 1, n))
        frac == IF Len(body) >= n + 2 /\ body[n + 1] = "." /\ body[n + 2] \in Digits
                THEN DigitVal(body[n + 2]) ELSE 0
    IN  IF n = 0 THEN NaN
        ELSE (IF neg THEN -1 ELSE 1) * (10 * int + frac)

isNaN(x) == x = NaN

\* parseFloat(number): a stored Number is converted to text and read back
ParseFloatNum(x) == x

----------------------------------------------------------------------------
(* Request slots *)

Empty == [k \in {} |-> 0]

\* a slot that holds no request
Idle ==
    [ op |-> "none", pc |-> "idle", user |-> NoUser,
      authorization |-> "valid", \* req.headers.authorization: the token of user,
                                 \* but for a request that isAuth turns away
      id |-> Missing,            \* req.params.id
      trip_id |-> Missing,       \* req.body.trip_id (booking)
      passenger_id |-> Missing,  \* req.body.passenger_id (booking)
      seat_number |-> 0,         \* parseInt(req.body.seat_number)
      fare |-> 0,                \* parseFloat(req.body.fare)
      body |-> {},               \* req.body of an update / req.query of a listing
      trip |-> {},               \* local: trip / updatedTrip
      bus |-> {},                \* local: trip.bus_id after populate / bus
      passenger |-> {},          \* local: passenger
      ticket |-> {},             \* local: ticket / existingTicket
      passengerIds |-> {},       \* local: passengerIds
      list |-> Empty,            \* the documents in the 200 response of a listing
      res |-> 0,                 \* the HTTP status sent
      out |-> Missing ]          \* the _id of the document in a 201 response

\* every slot carries one request: it is free until its request arrives
Free(r) == rq[r].pc = "idle"
InFlight(r) == rq[r].pc \notin {"idle", "done"}
Answered(r) == rq[r].pc = "done"

\* res.status(code).json(...): the handler ends, its locals are gone
Done(s, code) ==
    [s EXCEPT !.pc = "done", !.res = code,
              !.trip = {}, !.bus = {}, !.passenger = {}, !.ticket = {},
              !.passengerIds = {}]

\* the store as a record, as kept in pre
Snapshot ==
    [buses |-> buses, trips |-> trips, passengers |-> passengers, tickets |-> tickets]

----------------------------------------------------------------------------
(* Inputs of the requests *)

TripIdArgs == (1..MaxTrips + 1) \cup {Missing, Malformed}
PassengerIdArgs == (1..MaxPassengers + 1) \cup {Missing, Malformed}
TicketIdArgs == (1..MaxTickets) \cup {Malformed}

DigitChar(n) == <<"0", "1", "2", "3", "4", "5", "6", "7", "8", "9">>[n + 1]

\* seat_number as sent: "0", "1", ..., one more than the largest route;
\* "2.5" (parseInt reads 2) and "x"
SeatTexts ==
    { <<DigitChar(n)>> : n \in 0..MaxSeats + 1 } \cup { <<"2", ".", "5">>, <<"x">> }

\* fare as sent: "5", "5.0", "7.5", "x"
FareTexts == { <<"5">>, <<"5", ".", "0">>, <<"7", ".", "5">>, <<"x">> }

\* the clients that send any request, and those that send an admin's
\* well-formed ones
AnyReq == {1}
AdminReq == Req \ AnyReq

\* who may be the caller of the request in slot r
Callers(r) == IF r \in AnyReq THEN Users ELSE {Admin}

----------------------------------------------------------------------------
(* POST /api/ticket: book a ticket *)

\* casting and structural validation, then await Trip.findById(trip_id) ...
BookValidate(s) ==
    IF s.trip_id = Missing \/ ~isValidObjectId(s.trip_id) THEN Done(s, 400)
    ELSE IF s.passenger_id = Missing \/ ~isValidObjectId(s.passenger_id) THEN Done(s, 400)
    ELSE IF isNaN(s.seat_number) \/ s.seat_number <= 0 THEN Done(s, 400)
    ELSE LET trip == Lookup(trips, s.trip_id)
         IN  [s EXCEPT !.trip = trip,
                       !.pc = IF trip = {} THEN "findPassenger" ELSE "populate"]

\* a booking request arrives in slot r
Book(r, u, tid, pid, st, ft) ==
    /\ Free(r)
    /\ rq' = [rq EXCEPT ![r] =
                BookValidate([Idle EXCEPT !.op = "book", !.user = u,
                                          !.trip_id = tid, !.passenger_id = pid,
                                          !.seat_number = ParseInt(st),
                                          !.fare = ParseFloat(ft)])]
    /\ UNCHANGED <<store, nextId, pre>>

\* any caller, any body
BookStart(r) ==
    /\ Free(r)
    /\ \E u \in Users, tid \in TripIdArgs, pid \in PassengerIdArgs,
          st \in SeatTexts, ft \in FareTexts :
         Book(r, u, tid, pid, st, ft)

\* an admin's request for trip 1 and passenger 1, with any seat and fare
BookStartAdmin(r) ==
    /\ Free(r)
    /\ \E st \in SeatTexts, ft \in FareTexts :
         Book(r, Admin, 1, 1, st, ft)

\* ... .populate('bus_id'): a second query, for the trip's bus
BookPopulate(r) ==
    /\ rq[r].op = "book" /\ rq[r].pc = "populate"
    /\ rq' = [rq EXCEPT ![r].bus = Lookup(buses, The(rq[r].trip).bus_id),
                        ![r].pc = "findPassenger"]
    /\ UNCHANGED <<store, nextId, pre>>

\* the checks with the seat number tested before the seats left
BookChecks_RangeFirst(s, passenger) ==
    IF s.trip = {} \/ s.bus = {} \/ passenger = {} THEN Done(s, 404)
    ELSE IF s.user.role # "admin" /\ The(passenger).owner_id # s.user.userId
         THEN Done(s, 403)
    ELSE IF s.seat_number > The(s.bus).total_seats THEN Done(s, 400)
    ELSE IF The(s.trip).available_seats <= 0 THEN Done(s, 409)
    ELSE IF s.fare # ParseFloatNum(The(s.bus).fare) THEN Done(s, 400)
    ELSE [s EXCEPT !.passenger = passenger, !.pc = "findSeat"]

\* the checks without the one of the seat number against the route
BookChecks_NoRange(s, passenger) ==
    IF s.trip = {} \/ s.bus = {} \/ passenger = {} THEN Done(s, 404)
    ELSE IF s.user.role # "admin" /\ The(passenger).owner_id # s.user.userId
         THEN Done(s, 403)
    ELSE IF The(s.trip).available_seats <= 0 THEN Done(s, 409)
    ELSE IF s.fare # ParseFloatNum(The(s.bus).fare) THEN Done(s, 400)
    ELSE [s EXCEPT !.passenger = passenger, !.pc = "findSeat"]

\* the checks between Passenger.findById and Ticket.findOne
BookChecks(s, passenger) ==
    IF s.trip = {} \/ s.bus = {} \/ passenger = {} THEN Done(s, 404)
    ELSE IF s.user.role # "admin" /\ The(passenger).owner_id # s.user.userId
         THEN Done(s, 403)
    ELSE IF The(s.trip).available_seats <= 0 THEN Done(s, 409)
    ELSE IF s.seat_number > The(s.bus).total_seats THEN Done(s, 400)
    ELSE IF s.fare # ParseFloatNum(The(s.bus).fare) THEN Done(s, 400)
    ELSE [s EXCEPT !.passenger = passenger, !.pc = "findSeat"]

\* await Passenger.findById(passenger_id), then the checks
BookFindPassenger(r) ==
    /\ rq[r].op = "book" /\ rq[r].pc = "findPassenger"
    /\ rq' = [rq EXCEPT ![r] = BookChecks(rq[r], Lookup(passengers, rq[r].passenger_id))]
    /\ UNCHANGED <<store, nextId, pre>>

\* Ticket.findOne({ trip_id, seat_number })
SeatTickets(trip_id, seat_number) ==
    {k \in DOMAIN tickets :
        tickets[k].trip_id = trip_id /\ tickets[k].seat_number = seat_number}

\* await Ticket.findOne({ trip_id, seat_number })
BookFindSeat(r) ==
    /\ rq[r].op = "book" /\ rq[r].pc = "findSeat"
    /\ rq' = [rq EXCEPT ![r] =
                IF SeatTickets(rq[r].trip_id, rq[r].seat_number) # {}
                THEN Done(rq[r], 409)
                ELSE [rq[r] EXCEPT !.pc = "reserve"]]
    /\ UNCHANGED <<store, nextId, pre>>

\* Trip.findByIdAndUpdate(id, { $inc: { available_seats: n } }): no validators run
IncSeats(coll, id, n) ==
    IF id \in DOMAIN coll
    THEN [coll EXCEPT ![id].available_seats = @ + n]
    ELSE coll

\* a test that lets the counter go one below zero
Overbooked_Lax(updatedTrip) == The(updatedTrip).available_seats < -1

\* the test on updatedTrip after the decrement
Overbooked(updatedTrip) == The(updatedTrip).available_seats < 0

\* await Trip.findByIdAndUpdate(trip_id, { $inc: { available_seats: -1 } }, { new: true })
BookReserve(r) ==
    /\ rq[r].op = "book" /\ rq[r].pc = "reserve"
    /\ trips' = IncSeats(trips, rq[r].trip_id, -1)
    /\ LET updatedTrip == Lookup(trips', rq[r].trip_id)
       IN  rq' = [rq EXCEPT ![r] =
                    IF updatedTrip = {} THEN Done(rq[r], 409)
                    ELSE IF Overbooked(updatedTrip) THEN [rq[r] EXCEPT !.pc = "restore"]
                    ELSE [rq[r] EXCEPT !.pc = "save"]]
    /\ UNCHANGED <<buses, passengers, tickets, nextId, pre>>

\* a rejection that keeps the seat it took
BookRestore_Keep(r) ==
    /\ rq[r].op = "book" /\ rq[r].pc = "restore"
    /\ rq' = [rq EXCEPT ![r] = Done(rq[r], 409)]
    /\ UNCHANGED <<store, nextId, pre>>

\* await Trip.findByIdAndUpdate(trip_id, { $inc: { available_seats: 1 } }), then 409
BookRestore(r) ==
    /\ rq[r].op = "book" /\ rq[r].pc = "restore"
    /\ trips' = IncSeats(trips, rq[r].trip_id, 1)
    /\ rq' = [rq EXCEPT ![r] = Done(rq[r], 409)]
    /\ UNCHANGED <<buses, passengers, tickets, nextId, pre>>

\* a ticket issued to the caller instead of the requested passenger
NewTicket_Caller(s) ==
    [ trip_id |-> s.trip_id, passenger_id |-> s.user.userId,
      seat_number |-> s.seat_number, fare |-> The(s.bus).fare,
      journey_date |-> The(s.trip).date ]

\* new Ticket({ trip_id, passenger_id, seat_number, fare: trip.bus_id.fare,
\*              journey_date: trip.date })
NewTicket(s) ==
    [ trip_id |-> s.trip_id, passenger_id |-> s.passenger_id,
      seat_number |-> s.seat_number, fare |-> The(s.bus).fare,
      journey_date |-> The(s.trip).date ]

\* await ticket.save() succeeds; 201
BookSave(r) ==
    /\ rq[r].op = "book" /\ rq[r].pc = "save"
    /\ tickets' = Put(tickets, nextId.ticket, NewTicket(rq[r]))
    /\ nextId' = [nextId EXCEPT !.ticket = @ + 1]
    /\ rq' = [rq EXCEPT ![r] = [Done(rq[r], 201) EXCEPT !.out = nextId.ticket]]
    /\ UNCHANGED <<buses, trips, passengers, pre>>

\* await ticket.save() rejects (the store fails the write): the catch block
\* answers 500 and does nothing else
BookSaveFail(r) ==
    /\ rq[r].op = "book" /\ rq[r].pc = "save"
    /\ rq' = [rq EXCEPT ![r] = Done(rq[r], 500)]
    /\ UNCHANGED <<store, nextId, pre>>

----------------------------------------------------------------------------
(* DELETE /api/ticket/:id: cancel a ticket *)

\* a check that only asks for the passenger to exist
NotOwner_Lax(user, passenger) == passenger = {}

\* the ownership check of the ticket handlers, on the ticket's passenger
NotOwner(user, passenger) ==
    passenger = {} \/ The(passenger).owner_id # user.userId

\* the head of the handler and await Ticket.findById(id)
CancelHead(s) ==
    IF ~isValidObjectId(s.id) THEN Done(s, 400)
    ELSE LET ticket == Lookup(tickets, s.id)
         IN  IF ticket = {} THEN Done(s, 404)
             ELSE [s EXCEPT !.ticket = ticket,
                            !.pc = IF s.user.role # "admin" THEN "findPassenger"
                                                            ELSE "delete"]

CancelStart(r) ==
    /\ Free(r)
    /\ \E u \in Callers(r), id \in TicketIdArgs :
         rq' = [rq EXCEPT ![r] =
                  CancelHead([Idle EXCEPT !.op = "cancelTicket", !.user = u, !.id = id])]
    /\ UNCHANGED <<store, nextId, pre>>

\* await Passenger.findById(ticket.passenger_id), then the ownership check
CancelFindPassenger(r) ==
    /\ rq[r].op = "cancelTicket" /\ rq[r].pc = "findPassenger"
    /\ rq' = [rq EXCEPT ![r] =
                IF NotOwner(rq[r].user, Lookup(passengers, The(rq[r].ticket).passenger_id))
                THEN Done(rq[r], 403)
                ELSE [rq[r] EXCEPT !.pc = "delete"]]
    /\ UNCHANGED <<store, nextId, pre>>

\* a delete that waits for the ticket to be in the store
CancelDelete_Wait(r) ==
    /\ rq[r].op = "cancelTicket" /\ rq[r].pc = "delete"
    /\ rq[r].id \in DOMAIN tickets
    /\ tickets' = Remove(tickets, rq[r].id)
    /\ rq' = [rq EXCEPT ![r].pc = "release"]
    /\ UNCHANGED <<buses, trips, passengers, nextId, pre>>

\* await Ticket.findByIdAndDelete(id): its result is not looked at
CancelDelete(r) ==
    /\ rq[r].op = "cancelTicket" /\ rq[r].pc = "delete"
    /\ tickets' = Remove(tickets, rq[r].id)
    /\ rq' = [rq EXCEPT ![r].pc = "release"]
    /\ UNCHANGED <<buses, trips, passengers, nextId, pre>>

\* await Trip.findByIdAndUpdate(ticket.trip_id, { $inc: { available_seats: 1 } }), then 200
\* (ticket.trip_id is an ObjectId of the schema: isValidObjectId holds)
CancelRelease(r) ==
    /\ rq[r].op = "cancelTicket" /\ rq[r].pc = "release"
    /\ trips' = IF isValidObjectId(The(rq[r].ticket).trip_id)
                THEN IncSeats(trips, The(rq[r].ticket).trip_id, 1)
                ELSE trips
    /\ rq' = [rq EXCEPT ![r] = Done(rq[r], 200)]
    /\ UNCHANGED <<buses, passengers, tickets, nextId, pre>>

----------------------------------------------------------------------------
(* GET /api/passenger and GET /api/ticket: the listings *)

\* Model.find(query): the documents of coll with the ids in ids
Find(coll, ids) == [k \in ids |-> coll[k]]

\* ?search= of the passenger listing ("" when absent): whole names
Searches == {"", "ann", "bob"}

\* { name: { $regex: search, $options: 'i' } } on a whole lower-case name
\* (contact is not carried)
Matches(doc, search) == doc.name = search

\* a listing that does not filter on the owner
PassengerQuery_All(user, search, coll) ==
    Find(coll, {k \in DOMAIN coll : search # "" => Matches(coll[k], search)})

\* the passenger listing's query: owner_id for a non-admin, and the search
PassengerQuery(user, search, coll) ==
    Find(coll, {k \in DOMAIN coll :
                  /\ user.role # "admin" => coll[k].owner_id = user.userId
                  /\ search # "" => Matches(coll[k], search)})

\* GET /api/passenger: await Passenger.find(query); 200
PassengerList(r) ==
    /\ Free(r)
    /\ \E u \in Callers(r), search \in Searches :
         LET s == [Idle EXCEPT !.op = "listPassengers", !.user = u,
                               !.body = {<<"search", search>>}]
         IN  rq' = [rq EXCEPT ![r] =
                      [Done(s, 200) EXCEPT !.list = PassengerQuery(u, search, passengers)]]
    /\ UNCHANGED <<store, nextId, pre>>

\* Passenger.find({ owner_id: req.user.userId }).select('_id'), mapped to the ids
OwnedPassengerIds(user, coll) == {k \in DOMAIN coll : coll[k].owner_id = user.userId}

\* the ticket listing's query: passenger_id $in passengerIds for a non-admin,
\* and trip_id when the query string holds a valid one
TicketQuery(user, passengerIds, trip_id, coll) ==
    Find(coll, {k \in DOMAIN coll :
                  /\ user.role # "admin" => coll[k].passenger_id \in passengerIds
                  /\ (trip_id # Missing /\ isValidObjectId(trip_id)) => coll[k].trip_id = trip_id})

\* GET /api/ticket: for a non-admin, await Passenger.find(...); for an admin
\* the handler goes straight to Ticket.find
TicketListStart(r) ==
    /\ Free(r)
    /\ \E u \in Callers(r), trip_id \in TripIdArgs :
         LET s == [Idle EXCEPT !.op = "listTickets", !.user = u, !.trip_id = trip_id]
         IN  rq' = [rq EXCEPT ![r] =
                      IF u.role # "admin"
                      THEN [s EXCEPT !.passengerIds = OwnedPassengerIds(u, passengers),
                                     !.pc = "find"]
                      ELSE [Done(s, 200) EXCEPT !.list = TicketQuery(u, {}, trip_id, tickets)]]
    /\ UNCHANGED <<store, nextId, pre>>

\* await Ticket.find(query); 200
TicketListFind(r) ==
    /\ rq[r].op = "listTickets" /\ rq[r].pc = "find"
    /\ rq' = [rq EXCEPT ![r] =
                [Done(rq[r], 200) EXCEPT
                    !.list = TicketQuery(rq[r].user, rq[r].passengerIds, rq[r].trip_id, tickets)]]
    /\ UNCHANGED <<store, nextId, pre>>

----------------------------------------------------------------------------
(* GET /api/ticket/:id: view a ticket *)

\* the head of the handler and await Ticket.findById(id)
TicketGetStart(r) ==
    /\ Free(r)
    /\ \E u \in Callers(r), id \in TicketIdArgs :
         LET s      == [Idle EXCEPT !.op = "getTicket", !.user = u, !.id = id]
             ticket == Lookup(tickets, id)
         IN  rq' = [rq EXCEPT ![r] =
                      IF ~isValidObjectId(id) THEN Done(s, 400)
                      ELSE IF ticket = {} THEN Done(s, 404)
                      ELSE IF u.role # "admin"
                           THEN [s EXCEPT !.ticket = ticket, !.pc = "findPassenger"]
                      ELSE [Done(s, 200) EXCEPT !.out = id]]
    /\ UNCHANGED <<store, nextId, pre>>

\* await Passenger.findById(ticket.passenger_id), then the ownership check
TicketGetFindPassenger(r) ==
    /\ rq[r].op = "getTicket" /\ rq[r].pc = "findPassenger"
    /\ rq' = [rq EXCEPT ![r] =
                IF NotOwner(rq[r].user, Lookup(passengers, The(rq[r].ticket).passenger_id))
                THEN Done(rq[r], 403)
                ELSE [Done(rq[r], 200) EXCEPT !.out = rq[r].id]]
    /\ UNCHANGED <<store, nextId, pre>>

----------------------------------------------------------------------------
(* PUT /api/ticket/:id: update a ticket *)

\* bodies of a ticket update: nothing, one field, or one field under "$set"
TicketBodies ==
    {{}} \cup { {<<"seat_number", n>>} : n \in 0..MaxSeats }
         \cup { {<<"trip_id", t>>} : t \in 1..MaxTrips + 1 }
         \cup { {<<"passenger_id", q>>} : q \in 1..MaxPassengers + 1 }
         \cup { {<<"fare", f>>} : f \in Fares }
         \cup { {<<"journey_date", d>>} : d \in Dates }
         \cup { {<<"$set", "seat_number", n>>} : n \in 1..MaxSeats }

\* the head of the handler and await Ticket.findById(id)
TicketUpdateHead(s) ==
    IF ~isValidObjectId(s.id) THEN Done(s, 400)
    ELSE LET existingTicket == Lookup(tickets, s.id)
         IN  IF existingTicket = {} THEN Done(s, 404)
             ELSE [s EXCEPT !.ticket = existingTicket,
                            !.pc = IF s.user.role # "admin" THEN "findPassenger"
                                                            ELSE "apply"]

TicketUpdateStart(r) ==
    /\ Free(r)
    /\ \E u \in Callers(r), id \in TicketIdArgs, body \in TicketBodies :
         rq' = [rq EXCEPT ![r] =
                  TicketUpdateHead([Idle EXCEPT !.op = "updateTicket", !.user = u,
                                                !.id = id, !.body = body])]
    /\ UNCHANGED <<store, nextId, pre>>

\* await Passenger.findById(existingTicket.passenger_id), then the ownership check
TicketUpdateFindPassenger(r) ==
    /\ rq[r].op = "updateTicket" /\ rq[r].pc = "findPassenger"
    /\ rq' = [rq EXCEPT ![r] =
                IF NotOwner(rq[r].user, Lookup(passengers, The(rq[r].ticket).passenger_id))
                THEN Done(rq[r], 403)
                ELSE [rq[r] EXCEPT !.pc = "apply"]]
    /\ UNCHANGED <<store, nextId, pre>>

\* "Non-admins cannot change critical trip data": the fields deleted from req.body
TicketBody(s) ==
    IF s.user.role # "admin"
    THEN Without(s.body, {"trip_id", "fare", "seat_number", "journey_date"})
    ELSE s.body

\* the update validators of TicketSchema: seat_number min 1, fare min 0
TicketBodyValid(body) ==
    /\ Has(body, "seat_number") => Get(body, "seat_number") >= 1
    /\ Has(body, "fare") => Get(body, "fare") >= 0

\* await Ticket.findByIdAndUpdate(id, req.body, { new: true, runValidators: true })
TicketUpdateApply(r) ==
    /\ rq[r].op = "updateTicket" /\ rq[r].pc = "apply"
    /\ LET body == TicketBody(rq[r])
       IN  IF ~TicketBodyValid(Cast(body))
           THEN /\ tickets' = tickets
                /\ rq' = [rq EXCEPT ![r] = Done(rq[r], 400)]
           ELSE /\ tickets' = IF rq[r].id \in DOMAIN tickets
                              THEN [tickets EXCEPT ![rq[r].id] = Apply(@, body)]
                              ELSE tickets
                /\ rq' = [rq EXCEPT ![r] = Done(rq[r], 200)]
    /\ UNCHANGED <<buses, trips, passengers, nextId, pre>>

----------------------------------------------------------------------------
(* /api/trip: schedule, update and delete a trip (admin only) *)

\* a guard that lets every caller through
isAdmin_Any(user) == TRUE

\* isAdmin: 403 unless req.user.role is 'admin'
isAdmin(user) == user.role = "admin"

\* POST: the head of the handler and await Bus.findById(bus_id)
TripCreateStart(r) ==
    /\ Free(r)
    /\ \E u \in Callers(r), bus_id \in 1..MaxBuses + 1, date \in Dates :
         LET s   == [Idle EXCEPT !.op = "createTrip", !.user = u, !.id = bus_id,
                                 !.body = {<<"date", date>>}]
             bus == Lookup(buses, bus_id)
         IN  rq' = [rq EXCEPT ![r] =
                      IF ~isAdmin(u) THEN Done(s, 403)
                      ELSE IF bus = {} THEN Done(s, 404)
                      ELSE [s EXCEPT !.bus = bus, !.pc = "save"]]
    /\ UNCHANGED <<store, nextId, pre>>

\* a trip that starts with no seat on sale
NewTrip_SoldOut(s) ==
    [ bus_id |-> s.id, total_seats |-> The(s.bus).total_seats,
      available_seats |-> 0, date |-> Get(s.body, "date") ]

\* new Trip({ bus_id, date, departure_time, total_seats: bus.total_seats,
\*            available_seats: bus.total_seats })
NewTrip(s) ==
    [ bus_id |-> s.id, total_seats |-> The(s.bus).total_seats,
      available_seats |-> The(s.bus).total_seats, date |-> Get(s.body, "date") ]

\* await trip.save(); 201
TripCreateSave(r) ==
    /\ rq[r].op = "createTrip" /\ rq[r].pc = "save"
    /\ trips' = Put(trips, nextId.trip, NewTrip(rq[r]))
    /\ nextId' = [nextId EXCEPT !.trip = @ + 1]
    /\ rq' = [rq EXCEPT ![r] = [Done(rq[r], 201) EXCEPT !.out = nextId.trip]]
    /\ UNCHANGED <<buses, passengers, tickets, pre>>

\* bodies of a trip update: nothing, one field, or one field under "$set"
TripBodies ==
    {{}} \cup { {<<"total_seats", n>>} : n \in 0..MaxSeats }
         \cup { {<<"available_seats", n>>} : n \in 0..MaxSeats }
         \cup { {<<"date", d>>} : d \in Dates }
         \cup { {<<"bus_id", b>>} : b \in 1..MaxBuses + 1 }
         \cup { {<<"$set", "available_seats", n>>} : n \in 0..MaxSeats }

\* "Prevent manual tampering of available_seats": delete updateData.available_seats
TripBody(body) == Without(body, {"available_seats"})

\* the update validators of TripSchema: total_seats min 1
TripBodyValid(body) == Has(body, "total_seats") => Get(body, "total_seats") >= 1

\* PUT: await Trip.findByIdAndUpdate(id, updateData, { new: true, runValidators: true });
\* a malformed id fails the cast (500)
TripUpdate(r) ==
    /\ Free(r)
    /\ \E u \in Callers(r), id \in TripIdArgs \ {Missing}, body \in TripBodies :
         LET s == [Idle EXCEPT !.op = "updateTrip", !.user = u, !.id = id, !.body = body]
             updateData == TripBody(body)
         IN  IF ~isAdmin(u)
             THEN trips' = trips /\ rq' = [rq EXCEPT ![r] = Done(s, 403)]
             ELSE IF ~isValidObjectId(id)
             THEN trips' = trips /\ rq' = [rq EXCEPT ![r] = Done(s, 500)]
             ELSE IF ~TripBodyValid(Cast(updateData))
             THEN trips' = trips /\ rq' = [rq EXCEPT ![r] = Done(s, 400)]
             ELSE IF id \notin DOMAIN trips
             THEN trips' = trips /\ rq' = [rq EXCEPT ![r] = Done(s, 404)]
             ELSE /\ trips' = [trips EXCEPT ![id] = Apply(@, updateData)]
                  /\ rq' = [rq EXCEPT ![r] = Done(s, 200)]
    /\ UNCHANGED <<buses, passengers, tickets, nextId, pre>>

\* DELETE: the head of the handler and await Ticket.findOne({ trip_id: id })
TripDeleteStart(r) ==
    /\ Free(r)
    /\ \E u \in Callers(r), id \in TripIdArgs \ {Missing} :
         LET s == [Idle EXCEPT !.op = "deleteTrip", !.user = u, !.id = id]
         IN  rq' = [rq EXCEPT ![r] =
                      IF ~isAdmin(u) THEN Done(s, 403)
                      ELSE IF ~isValidObjectId(id) THEN Done(s, 500)
                      ELSE IF \E k \in DOMAIN tickets : tickets[k].trip_id = id
                           THEN Done(s, 409)
                      ELSE [s EXCEPT !.pc = "delete"]]
    /\ UNCHANGED <<store, nextId, pre>>

\* await Trip.findByIdAndDelete(id)
TripDelete(r) ==
    /\ rq[r].op = "deleteTrip" /\ rq[r].pc = "delete"
    /\ trips' = Remove(trips, rq[r].id)
    /\ rq' = [rq EXCEPT ![r] =
                Done(rq[r], IF rq[r].id \in DOMAIN trips THEN 200 ELSE 404)]
    /\ UNCHANGED <<buses, passengers, tickets, nextId, pre>>

----------------------------------------------------------------------------
(* /api/bus: add, update and delete a bus route (admin only) *)

\* the validators of BusSchema: total_seats min 1, fare min 0
BusBodyValid(body) ==
    /\ Has(body, "total_seats") => Get(body, "total_seats") >= 1
    /\ Has(body, "fare") => Get(body, "fare") >= 0

\* POST: await new Bus(req.body).save(); 201
BusCreate(r) ==
    /\ Free(r)
    /\ \E u \in Callers(r), n \in 0..MaxSeats, f \in Fares :
         LET body == {<<"total_seats", n>>, <<"fare", f>>}
             s    == [Idle EXCEPT !.op = "createBus", !.user = u, !.body = body]
         IN  IF ~isAdmin(u)
             THEN /\ rq' = [rq EXCEPT ![r] = Done(s, 403)]
                  /\ UNCHANGED <<buses, nextId>>
             ELSE IF ~BusBodyValid(body)
             THEN /\ rq' = [rq EXCEPT ![r] = Done(s, 400)]
                  /\ UNCHANGED <<buses, nextId>>
             ELSE /\ buses' = Put(buses, nextId.bus, [total_seats |-> n, fare |-> f])
                  /\ nextId' = [nextId EXCEPT !.bus = @ + 1]
                  /\ rq' = [rq EXCEPT ![r] = [Done(s, 201) EXCEPT !.out = nextId.bus]]
    /\ UNCHANGED <<trips, passengers, tickets, pre>>

\* bodies of a bus update: nothing, or one field
BusBodies ==
    {{}} \cup { {<<"total_seats", n>>} : n \in 0..MaxSeats }
         \cup { {<<"fare", f>>} : f \in Fares }

\* PUT: await Bus.findByIdAndUpdate(id, req.body, { new: true, runValidators: true })
BusUpdate(r) ==
    /\ Free(r)
    /\ \E u \in Callers(r), id \in 1..MaxBuses + 1, body \in BusBodies :
         LET s == [Idle EXCEPT !.op = "updateBus", !.user = u, !.id = id, !.body = body]
         IN  IF ~isAdmin(u)
             THEN buses' = buses /\ rq' = [rq EXCEPT ![r] = Done(s, 403)]
             ELSE IF ~BusBodyValid(Cast(body))
             THEN buses' = buses /\ rq' = [rq EXCEPT ![r] = Done(s, 400)]
             ELSE IF id \notin DOMAIN buses
             THEN buses' = buses /\ rq' = [rq EXCEPT ![r] = Done(s, 404)]
             ELSE /\ buses' = [buses EXCEPT ![id] = Apply(@, body)]
                  /\ rq' = [rq EXCEPT ![r] = Done(s, 200)]
    /\ UNCHANGED <<trips, passengers, tickets, nextId, pre>>

\* a delete that does not look for trips of the route
BusDeleteStart_NoCheck(r) ==
    /\ Free(r)
    /\ \E u \in Callers(r), id \in 1..MaxBuses + 1 :
         LET s == [Idle EXCEPT !.op = "deleteBus", !.user = u, !.id = id]
         IN  rq' = [rq EXCEPT ![r] =
                      IF ~isAdmin(u) THEN Done(s, 403)
                      ELSE [s EXCEPT !.pc = "delete"]]
    /\ UNCHANGED <<store, nextId, pre>>

\* DELETE: the head of the handler and await Trip.findOne({ bus_id: id })
BusDeleteStart(r) ==
    /\ Free(r)
    /\ \E u \in Callers(r), id \in 1..MaxBuses + 1 :
         LET s == [Idle EXCEPT !.op = "deleteBus", !.user = u, !.id = id]
         IN  rq' = [rq EXCEPT ![r] =
                      IF ~isAdmin(u) THEN Done(s, 403)
                      ELSE IF \E t \in DOMAIN trips : trips[t].bus_id = id
                           THEN Done(s, 409)
                      ELSE [s EXCEPT !.pc = "delete"]]
    /\ UNCHANGED <<store, nextId, pre>>

\* await Bus.findByIdAndDelete(id)
BusDelete(r) ==
    /\ rq[r].op = "deleteBus" /\ rq[r].pc = "delete"
    /\ buses' = Remove(buses, rq[r].id)
    /\ rq' = [rq EXCEPT ![r] =
                Done(rq[r], IF rq[r].id \in DOMAIN buses THEN 200 ELSE 404)]
    /\ UNCHANGED <<trips, passengers, tickets, nextId, pre>>

----------------------------------------------------------------------------
(* /api/passenger: add, view, update and delete a passenger *)

Ages == {30, 31}

\* the validators of PassengerSchema: age min 1
PassengerBodyValid(body) == Has(body, "age") => Get(body, "age") >= 1

\* POST: await new Passenger({ ...req.body, owner_id: req.user.userId }).save(); 201
PassengerCreate(r) ==
    /\ Free(r)
    /\ \E u \in Callers(r), owner \in {Missing} \cup {v.userId : v \in Users},
          age \in {0} \cup Ages :
         LET body == {<<"age", age>>, <<"name", "ann">>} \cup
                     (IF owner = Missing THEN {} ELSE {<<"owner_id", owner>>})
             s    == [Idle EXCEPT !.op = "createPassenger", !.user = u, !.body = body]
         IN  IF ~PassengerBodyValid(body)
             THEN /\ rq' = [rq EXCEPT ![r] = Done(s, 400)]
                  /\ UNCHANGED <<passengers, nextId>>
             ELSE /\ passengers' = Put(passengers, nextId.passenger,
                                       Apply(Apply([owner_id |-> Missing, age |-> Missing,
                                                    name |-> ""], body),
                                             {<<"owner_id", u.userId>>}))
                  /\ nextId' = [nextId EXCEPT !.passenger = @ + 1]
                  /\ rq' = [rq EXCEPT ![r] = [Done(s, 201) EXCEPT !.out = nextId.passenger]]
    /\ UNCHANGED <<buses, trips, tickets, pre>>

\* GET /:id: await Passenger.findById(id) (a malformed id fails the cast:
\* 500), then the ownership check
PassengerGet(r) ==
    /\ Free(r)
    /\ \E u \in Callers(r), id \in PassengerIdArgs \ {Missing} :
         LET s         == [Idle EXCEPT !.op = "getPassenger", !.user = u, !.id = id]
             passenger == Lookup(passengers, id)
         IN  rq' = [rq EXCEPT ![r] =
                      IF ~isValidObjectId(id) THEN Done(s, 500)
                      ELSE IF passenger = {} THEN Done(s, 404)
                      ELSE IF u.role # "admin" /\ The(passenger).owner_id # u.userId
                           THEN Done(s, 403)
                      ELSE [Done(s, 200) EXCEPT !.out = id]]
    /\ UNCHANGED <<store, nextId, pre>>

\* bodies of a passenger update: nothing, one field, or one field under "$set"
PassengerBodies ==
    {{}} \cup { {<<"age", a>>} : a \in {0} \cup Ages }
         \cup { {<<"owner_id", v.userId>>} : v \in Users }
         \cup { {<<"$set", "owner_id", v.userId>>} : v \in Users }

\* PUT /:id: the head of the handler, await Passenger.findById(id) and the
\* ownership check
PassengerUpdateStart(r) ==
    /\ Free(r)
    /\ \E u \in Callers(r), id \in PassengerIdArgs \ {Missing}, body \in PassengerBodies :
         LET s == [Idle EXCEPT !.op = "updatePassenger", !.user = u, !.id = id,
                               !.body = body]
             existingPassenger == Lookup(passengers, id)
         IN  rq' = [rq EXCEPT ![r] =
                      IF ~isValidObjectId(id) THEN Done(s, 500)
                      ELSE IF existingPassenger = {} THEN Done(s, 404)
                      ELSE IF u.role # "admin" /\ The(existingPassenger).owner_id # u.userId
                           THEN Done(s, 403)
                      ELSE [s EXCEPT !.pc = "apply"]]
    /\ UNCHANGED <<store, nextId, pre>>

\* "Prevent owner_id change": delete req.body.owner_id
PassengerBody(body) == Without(body, {"owner_id"})

\* await Passenger.findByIdAndUpdate(id, req.body, { new: true, runValidators: true })
PassengerUpdateApply(r) ==
    /\ rq[r].op = "updatePassenger" /\ rq[r].pc = "apply"
    /\ LET body == PassengerBody(rq[r].body)
       IN  IF ~PassengerBodyValid(Cast(body))
           THEN /\ passengers' = passengers
                /\ rq' = [rq EXCEPT ![r] = Done(rq[r], 400)]
           ELSE /\ passengers' = IF rq[r].id \in DOMAIN passengers
                                 THEN [passengers EXCEPT ![rq[r].id] = Apply(@, body)]
                                 ELSE passengers
                /\ rq' = [rq EXCEPT ![r] = Done(rq[r], 200)]
    /\ UNCHANGED <<buses, trips, tickets, nextId, pre>>

\* DELETE: the head of the handler, await Passenger.findById(id) and the
\* ownership check
PassengerDeleteStart(r) ==
    /\ Free(r)
    /\ \E u \in Callers(r), id \in 1..MaxPassengers + 1 :
         LET s         == [Idle EXCEPT !.op = "deletePassenger", !.user = u, !.id = id]
             passenger == Lookup(passengers, id)
         IN  rq' = [rq EXCEPT ![r] =
                      IF passenger = {} THEN Done(s, 404)
                      ELSE IF u.role # "admin" /\ The(passenger).owner_id # u.userId
                           THEN Done(s, 403)
                      ELSE [s EXCEPT !.pc = "findTickets"]]
    /\ UNCHANGED <<store, nextId, pre>>

\* a delete that does not look for tickets of the passenger
PassengerDeleteCheck_Skip(r) ==
    /\ rq[r].op = "deletePassenger" /\ rq[r].pc = "findTickets"
    /\ rq' = [rq EXCEPT ![r].pc = "delete"]
    /\ UNCHANGED <<store, nextId, pre>>

\* await Ticket.findOne({ passenger_id: id }): 409 when there is one
PassengerDeleteCheck(r) ==
    /\ rq[r].op = "deletePassenger" /\ rq[r].pc = "findTickets"
    /\ rq' = [rq EXCEPT ![r] =
                IF \E k \in DOMAIN tickets : tickets[k].passenger_id = rq[r].id
                THEN Done(rq[r], 409)
                ELSE [rq[r] EXCEPT !.pc = "delete"]]
    /\ UNCHANGED <<store, nextId, pre>>

\* await Passenger.findByIdAndDelete(id); 200
PassengerDelete(r) ==
    /\ rq[r].op = "deletePassenger" /\ rq[r].pc = "delete"
    /\ passengers' = Remove(passengers, rq[r].id)
    /\ rq' = [rq EXCEPT ![r] = Done(rq[r], 200)]
    /\ UNCHANGED <<buses, trips, tickets, nextId, pre>>

----------------------------------------------------------------------------
(* Concurrent bookings: every slot sends one booking request, at any time, *)
(* against a store that holds one route, one trip of it and two            *)
(* passengers.  The trip was scheduled when the route had `seats` seats,   *)
(* the route may have been resized since, and no seat is sold yet.         *)
(* pre keeps the store the requests were sent against.                     *)

BookInit ==
    \E seats \in 1..MaxSeats, busSeats \in 1..MaxSeats, fd \in {<<50, 1>>, <<75, 2>>} :
      /\ buses = Put(Empty, 1, [total_seats |-> busSeats, fare |-> fd[1]])
      /\ trips = Put(Empty, 1,
                     [ bus_id |-> 1, total_seats |-> seats,
                       available_seats |-> seats, date |-> fd[2] ])
      /\ passengers = Put(Put(Empty, 1, [owner_id |-> 1, age |-> 30, name |-> "ann"]),
                       2, [owner_id |-> 2, age |-> 30, name |-> "bob"])
      /\ tickets = Empty
      /\ nextId = [bus |-> 2, trip |-> 2, passenger |-> 3, ticket |-> 1]
      /\ rq = [r \in Req |-> Idle]
      /\ pre = Snapshot

BookNext ==
    \/ \E r \in AnyReq : BookStart(r)
    \/ \E r \in AdminReq : BookStartAdmin(r)
    \/ \E r \in Req :
        \/ BookPopulate(r)
        \/ BookFindPassenger(r)
        \/ BookFindSeat(r)
        \/ BookReserve(r)
        \/ BookRestore(r)
        \/ BookSave(r)

BookSpec == BookInit /\ [][BookNext]_vars

\* the same, with a store that can fail the ticket write
BookFailNext ==
    \/ BookNext
    \/ \E r \in Req : BookSaveFail(r)

BookFailSpec == BookInit /\ [][BookFailNext]_vars

----------------------------------------------------------------------------
(* A store with one route of MaxSeats seats at fare 50, one trip of it of
   which seats 1..k are sold, and MaxPassengers passengers *)

Store0(k) ==
    /\ buses = Put(Empty, 1, [total_seats |-> MaxSeats, fare |-> 50])
    /\ trips = Put(Empty, 1, [bus_id |-> 1, total_seats |-> MaxSeats,
                              available_seats |-> MaxSeats - k, date |-> 1])
    /\ passengers = [p \in 1..MaxPassengers |-> [ owner_id |-> IF p = 1 THEN 1 ELSE 2, age |-> 30,
                        name |-> IF p = 1 THEN "ann" ELSE "bob" ]]
    /\ tickets = [i \in 1..k |->
                    [ trip_id |-> 1, passenger_id |-> IF i <= MaxPassengers THEN i ELSE 1,
                      seat_number |-> i, fare |-> 50, journey_date |-> 1 ]]
    /\ nextId = [bus |-> 2, trip |-> 2, passenger |-> MaxPassengers + 1, ticket |-> k + 1]

----------------------------------------------------------------------------
(* Bookings, cancellations, ticket updates and trip updates, concurrently *)

Init ==
    /\ \E k \in 0..MaxTickets : Store0(k)
    /\ rq = [r \in Req |-> Idle]
    /\ pre = Snapshot

Next ==
    \E r \in Req :
        \/ BookStartAdmin(r)
        \/ BookPopulate(r)
        \/ BookFindPassenger(r)
        \/ BookFindSeat(r)
        \/ BookReserve(r)
        \/ BookRestore(r)
        \/ BookSave(r)
        \/ CancelStart(r)
        \/ CancelFindPassenger(r)
        \/ CancelDelete(r)
        \/ CancelRelease(r)
        \/ TicketUpdateStart(r)
        \/ TicketUpdateFindPassenger(r)
        \/ TicketUpdateApply(r)
        \/ TripUpdate(r)

Spec == Init /\ [][Next]_vars

----------------------------------------------------------------------------
(* Deletes of routes, trips and passengers, concurrently with trip creation
   and bookings *)

\* a route without a trip yet
StoreNoTrip ==
    /\ buses = Put(Empty, 1, [total_seats |-> MaxSeats, fare |-> 50])
    /\ trips = Empty
    /\ passengers = [p \in 1..MaxPassengers |-> [ owner_id |-> IF p = 1 THEN 1 ELSE 2, age |-> 30,
                        name |-> IF p = 1 THEN "ann" ELSE "bob" ]]
    /\ tickets = Empty
    /\ nextId = [bus |-> 2, trip |-> 1, passenger |-> MaxPassengers + 1, ticket |-> 1]

IntegrityInit ==
    /\ StoreNoTrip \/ \E k \in 0..MaxTickets : Store0(k)
    /\ rq = [r \in Req |-> Idle]
    /\ pre = Snapshot

IntegrityNext ==
    \E r \in Req :
        \/ BusDeleteStart(r)
        \/ BusDelete(r)
        \/ TripDeleteStart(r)
        \/ TripDelete(r)
        \/ PassengerDeleteStart(r)
        \/ PassengerDeleteCheck(r)
        \/ PassengerDelete(r)
        \/ TripCreateStart(r)
        \/ TripCreateSave(r)
        \/ BookStartAdmin(r)
        \/ BookPopulate(r)
        \/ BookFindPassenger(r)
        \/ BookFindSeat(r)
        \/ BookReserve(r)
        \/ BookRestore(r)
        \/ BookSave(r)

IntegritySpec == IntegrityInit /\ [][IntegrityNext]_vars

----------------------------------------------------------------------------
(* Requests one after the other: the request of a slot is sent when those of
   all earlier slots are answered *)

SeqReq == 1..NReq + 1

Turn(r) == \A q \in SeqReq : q < r => Answered(q)

\* bookings, cancellations and ticket updates, on a trip with MaxTickets
\* seats sold
SeqInit ==
    /\ Store0(MaxTickets)
    /\ rq = [r \in SeqReq |-> Idle]
    /\ pre = Snapshot

SeqNext ==
    \E r \in SeqReq :
        \/ Turn(r) /\ BookStartAdmin(r)
        \/ BookPopulate(r)
        \/ BookFindPassenger(r)
        \/ BookFindSeat(r)
        \/ BookReserve(r)
        \/ BookSave(r)
        \/ Turn(r) /\ CancelStart(r)
        \/ CancelFindPassenger(r)
        \/ CancelDelete(r)
        \/ CancelRelease(r)
        \/ Turn(r) /\ TicketUpdateStart(r)
        \/ TicketUpdateFindPassenger(r)
        \/ TicketUpdateApply(r)

SeqSpec == SeqInit /\ [][SeqNext]_vars

\* deletes of routes, trips and passengers, and trip creation
RouteInit ==
    /\ \E k \in 0..MaxTickets : Store0(k)
    /\ rq = [r \in SeqReq |-> Idle]
    /\ pre = Snapshot

RouteNext ==
    \E r \in SeqReq :
        \/ Turn(r) /\ BusDeleteStart(r)
        \/ BusDelete(r)
        \/ Turn(r) /\ TripDeleteStart(r)
        \/ TripDelete(r)
        \/ Turn(r) /\ TripCreateStart(r)
        \/ TripCreateSave(r)
        \/ Turn(r) /\ PassengerDeleteStart(r)
        \/ PassengerDeleteCheck(r)
        \/ PassengerDelete(r)

RouteSpec == RouteInit /\ [][RouteNext]_vars

----------------------------------------------------------------------------
(* Bookings and cancellations, concurrently, each awaited store call
   resolving in the end: the event loop resumes the handler of every call
   that has resolved, whatever the other handlers do *)

LiveInit ==
    /\ \E k \in 0..MaxTickets : Store0(k)
    /\ rq = [r \in Req |-> Idle]
    /\ pre = Snapshot

\* the next store call of the request in slot r, with the code that follows it
Resume(r) ==
    \/ BookPopulate(r)
    \/ BookFindPassenger(r)
    \/ BookFindSeat(r)
    \/ BookReserve(r)
    \/ BookRestore(r)
    \/ BookSave(r)
    \/ BookSaveFail(r)
    \/ CancelFindPassenger(r)
    \/ CancelDelete(r)
    \/ CancelRelease(r)

LiveNext ==
    \E r \in Req :
        \/ BookStartAdmin(r)
        \/ CancelStart(r)
        \/ Resume(r)

LiveSpec == LiveInit /\ [][LiveNext]_vars /\ \A r \in Req : WF_vars(Resume(r))

----------------------------------------------------------------------------
(* Bookings and cancellations in two rounds: NReq concurrent requests, and
   NReq more once these are answered.  The trip starts sold out. *)

RoundReq == 1..2 * NReq

\* the requests of the second round arrive when the first round is answered
Arrives(r) == r \in Req \/ \A q \in Req : Answered(q)

RoundInit ==
    /\ Store0(MaxTickets)
    /\ rq = [r \in RoundReq |-> Idle]
    /\ pre = Snapshot

RoundNext ==
    \E r \in RoundReq :
        \/ Arrives(r) /\ BookStartAdmin(r)
        \/ Arrives(r) /\ CancelStart(r)
        \/ BookPopulate(r)
        \/ BookFindPassenger(r)
        \/ BookFindSeat(r)
        \/ BookReserve(r)
        \/ BookRestore(r)
        \/ BookSave(r)
        \/ CancelFindPassenger(r)
        \/ CancelDelete(r)
        \/ CancelRelease(r)

RoundSpec == RoundInit /\ [][RoundNext]_vars

----------------------------------------------------------------------------
(* isAuth: the guard in front of every handler *)

\* the requests of the routers
Operations ==
    { "book", "cancelTicket", "getTicket", "updateTicket", "listTickets",
      "createTrip", "updateTrip", "deleteTrip", "createBus", "updateBus", "deleteBus",
      "createPassenger", "getPassenger", "updatePassenger", "deletePassenger",
      "listPassengers" }

\* what isAuth answers: 403 without an authorization header, 401 when
\* jwt.verify throws, and nothing (0: next() is called) for a valid token
isAuth(authorization) ==
    IF authorization = "none" THEN 403
    ELSE IF authorization = "invalid" THEN 401
    ELSE 0

\* a request without a valid token: isAuth answers and no handler runs
Unauthenticated(r) ==
    /\ Free(r)
    /\ \E op \in Operations, authorization \in {"none", "invalid"} :
         rq' = [rq EXCEPT ![r] =
                  Done([Idle EXCEPT !.op = op, !.authorization = authorization],
                       isAuth(authorization))]
    /\ UNCHANGED <<store, nextId, pre>>

----------------------------------------------------------------------------
(* One request, of any kind, by any caller, with any arguments *)

\* a trip whose bus_id names no route (as an admin's trip update can leave it:
\* the update does not look the route up)
StoreDangling ==
    /\ buses = Put(Empty, 1, [total_seats |-> MaxSeats, fare |-> 50])
    /\ trips = Put(Empty, 1, [bus_id |-> MaxBuses + 1, total_seats |-> MaxSeats,
                              available_seats |-> MaxSeats, date |-> 1])
    /\ passengers = [p \in 1..MaxPassengers |-> [ owner_id |-> IF p = 1 THEN 1 ELSE 2, age |-> 30,
                        name |-> IF p = 1 THEN "ann" ELSE "bob" ]]
    /\ tickets = Empty
    /\ nextId = [bus |-> 2, trip |-> 2, passenger |-> MaxPassengers + 1, ticket |-> 1]

OneInit ==
    /\ StoreDangling \/ \E k \in 0..MaxTickets : Store0(k)
    /\ rq = [r \in AnyReq |-> Idle]
    /\ pre = Snapshot

\* (a single booking never reaches BookRestore: it decrements only after it
\* has read available_seats > 0)
OneNext ==
    \E r \in AnyReq :
        \/ BookStart(r)
        \/ BookPopulate(r)
        \/ BookFindPassenger(r)
        \/ BookFindSeat(r)
        \/ BookReserve(r)
        \/ BookSave(r)
        \/ CancelStart(r)
        \/ CancelFindPassenger(r)
        \/ CancelDelete(r)
        \/ CancelRelease(r)
        \/ TicketGetStart(r)
        \/ TicketGetFindPassenger(r)
        \/ TicketUpdateStart(r)
        \/ TicketUpdateFindPassenger(r)
        \/ TicketUpdateApply(r)
        \/ TripCreateStart(r)
        \/ TripCreateSave(r)
        \/ TripUpdate(r)
        \/ TripDeleteStart(r)
        \/ TripDelete(r)
        \/ BusCreate(r)
        \/ BusUpdate(r)
        \/ BusDeleteStart(r)
        \/ BusDelete(r)
        \/ PassengerCreate(r)
        \/ PassengerGet(r)
        \/ PassengerUpdateStart(r)
        \/ PassengerUpdateApply(r)
        \/ PassengerDeleteStart(r)
        \/ PassengerDeleteCheck(r)
        \/ PassengerDelete(r)
        \/ PassengerList(r)
        \/ TicketListStart(r)
        \/ TicketListFind(r)

OneSpec == OneInit /\ [][OneNext]_vars

\* the same, with the requests that carry no valid token
AuthNext ==
    \/ OneNext
    \/ \E r \in AnyReq : Unauthenticated(r)

AuthSpec == OneInit /\ [][AuthNext]_vars

----------------------------------------------------------------------------
(* What the claims speak of *)

\* no request is between its first and its last store call
Quiet == \A r \in Req : ~InFlight(r)

AllAnswered == \A r \in Req : Answered(r)

\* the live tickets of a trip, in a Ticket collection
TicketsOf(coll, t) == {k \in DOMAIN coll : coll[k].trip_id = t}

\* the booking requests answered 201 for trip t
Booked(t) == {r \in Req : rq[r].op = "book" /\ Answered(r) /\ rq[r].res = 201
                          /\ rq[r].trip_id = t}

\* a booking that has taken a seat from the counter and has neither written
\* its ticket nor given the seat back
Holding(r) == rq[r].op = "book" /\ rq[r].pc \in {"save", "restore"}

\* request s passes every check of the booking handler against store st
ValidBooking(s, st) ==
    /\ s.op = "book"
    /\ isValidObjectId(s.trip_id) /\ isValidObjectId(s.passenger_id)
    /\ s.seat_number >= 1
    /\ s.trip_id \in DOMAIN st.trips
    /\ st.trips[s.trip_id].bus_id \in DOMAIN st.buses
    /\ s.passenger_id \in DOMAIN st.passengers
    /\ s.user.role = "admin" \/ st.passengers[s.passenger_id].owner_id = s.user.userId
    /\ s.seat_number <= st.buses[st.trips[s.trip_id].bus_id].total_seats
    /\ s.fare = st.buses[st.trips[s.trip_id].bus_id].fare
    /\ TicketsOf(st.tickets, s.trip_id) \cap
         {k \in DOMAIN st.tickets : st.tickets[k].seat_number = s.seat_number} = {}

\* every slot carries a valid booking for the same trip, which had exactly one
\* available seat, and no two of them ask for the same seat
LastSeatRace ==
    /\ \A r \in Req : rq[r].op = "book" /\ ValidBooking(rq[r], pre)
    /\ \A r, q \in Req :
         /\ rq[r].trip_id = rq[q].trip_id
         /\ r # q => rq[r].seat_number # rq[q].seat_number
    /\ \A r \in Req : pre.trips[rq[r].trip_id].available_seats = 1

(* C1: whenever no request is in flight, every trip's available_seats plus   *)
(* the number of tickets of that trip equals its total_seats.                *)
C1_Inventory ==
    Quiet =>
        \A t \in DOMAIN trips :
            trips[t].available_seats + Cardinality(TicketsOf(tickets, t))
                = trips[t].total_seats

(* C2: no two tickets of one trip have the same seat_number.                 *)
C2_SeatUnique ==
    \A k1, k2 \in DOMAIN tickets :
        (k1 # k2 /\ tickets[k1].trip_id = tickets[k2].trip_id)
            => tickets[k1].seat_number # tickets[k2].seat_number

(* C4: every trip's available_seats is at least 0 and at most its            *)
(* total_seats, in every state.                                              *)
C4_Range ==
    \A t \in DOMAIN trips :
        0 <= trips[t].available_seats /\ trips[t].available_seats <= trips[t].total_seats

(* C3: when every slot carries a valid booking for a distinct seat of one    *)
(* trip that had exactly one available seat, then, once all are answered,    *)
(* exactly one got 201 and created the only new ticket, and every other one  *)
(* got 409 and created none.                                                 *)
C3_LastSeat ==
    (LastSeatRace /\ AllAnswered) =>
        /\ Cardinality({r \in Req : rq[r].res = 201}) = 1
        /\ \A r \in Req : rq[r].res \in {201, 409}
        /\ \A r \in Req : rq[r].res = 409 => rq[r].out = Missing
        /\ Cardinality(DOMAIN tickets) = Cardinality(DOMAIN pre.tickets) + 1

\* two valid bookings raced for the last seat: one is answered 201 while the
\* other, whose decrement left the counter negative, is about to restore it
C3_Witness ==
    /\ LastSeatRace
    /\ \E r, q \in Req : rq[r].pc = "restore" /\ rq[q].res = 201

(* C5: a booking that ran alone and was answered 500 because the ticket      *)
(* write failed has left every trip's available_seats and the tickets as     *)
(* they were before it.                                                      *)
C5_Compensated ==
    \A r \in Req :
        ( /\ rq[r].op = "book" /\ Answered(r) /\ rq[r].res = 500
          /\ \A q \in Req \ {r} : Free(q) )
        => trips = pre.trips /\ tickets = pre.tickets

(* C6: rejected bookings leave no trace: whenever no booking is between its  *)
(* decrement and its ticket write or restore, every trip's available_seats   *)
(* is its value before the requests less the bookings answered 201, the      *)
(* tickets that existed are unchanged and the only new tickets are those of  *)
(* the bookings answered 201.                                                *)
C6_RejectedNoChange ==
    (\A r \in Req : ~Holding(r)) =>
        /\ DOMAIN trips = DOMAIN pre.trips
        /\ \A t \in DOMAIN trips :
             trips[t].available_seats
               = pre.trips[t].available_seats - Cardinality(Booked(t))
        /\ \A k \in DOMAIN pre.tickets : k \in DOMAIN tickets /\ tickets[k] = pre.tickets[k]
        /\ (DOMAIN tickets) \ (DOMAIN pre.tickets)
             = {rq[r].out : r \in {q \in Req : rq[q].res = 201}}

\* a booking that was valid when sent has been rejected with 409 after the
\* other one took the last seat, and nothing is in flight
C6_Witness ==
    /\ AllAnswered
    /\ \E r, q \in Req :
         /\ ValidBooking(rq[r], pre) /\ rq[r].res = 409
         /\ rq[q].res = 201

Latest(b) == Answered(b) /\ \A q \in SeqReq : q > b => Free(q)

\* the trips of route x in a Trip collection
TripsOf(coll, x) == {t \in DOMAIN coll : coll[t].bus_id = x}

(* C8: when a ticket has been cancelled (200) and the very next request      *)
(* books the seat of that ticket on its trip, for an existing passenger at   *)
(* the route's fare, the booking is answered 201 and the trip's              *)
(* available_seats is what it was before the cancellation.  The requests     *)
(* before the cancellation were rejected or updated other tickets, so the    *)
(* ticket and the counter were as in pre when the cancellation was sent.     *)
C8_CancelRebook ==
    LET a == NReq
        b == NReq + 1
        k == rq[a].id
        t == pre.tickets[k].trip_id
    IN  ( /\ rq[a].op = "cancelTicket" /\ Answered(a) /\ rq[a].res = 200
          /\ k \in DOMAIN pre.tickets
          /\ \A q \in 1..(a - 1) :
               \/ rq[q].res \notin {200, 201}
               \/ rq[q].op = "updateTicket" /\ rq[q].id # k
          /\ rq[b].op = "book" /\ Answered(b)
          /\ rq[b].trip_id = t
          /\ rq[b].seat_number = pre.tickets[k].seat_number
          /\ rq[b].passenger_id \in DOMAIN pre.passengers
          /\ rq[b].fare = pre.buses[pre.trips[t].bus_id].fare )
        => /\ rq[b].res = 201
           /\ trips[t].available_seats = pre.trips[t].available_seats

(* C9: every trip's bus_id is the id of a bus, and every ticket's trip_id    *)
(* is the id of a trip and its passenger_id the id of a passenger.           *)
C9_RefIntegrity ==
    /\ \A t \in DOMAIN trips : trips[t].bus_id \in DOMAIN buses
    /\ \A k \in DOMAIN tickets :
         /\ tickets[k].trip_id \in DOMAIN trips
         /\ tickets[k].passenger_id \in DOMAIN passengers

(* C10: among requests sent one after the other, an admin's delete of a      *)
(* route that has a trip is answered 409 and, when it is the first request,  *)
(* leaves the routes and trips as they were; an admin's delete of a route    *)
(* that had trips, sent when none of its trips is left, is answered 200 and  *)
(* removes that route and no other.                                          *)
C10_RouteDelete ==
    \A b \in SeqReq :
        (Latest(b) /\ rq[b].op = "deleteBus" /\ isAdmin(rq[b].user)) =>
            /\ TripsOf(trips, rq[b].id) # {} =>
                 /\ rq[b].res = 409
                 /\ b = 1 => buses = pre.buses /\ trips = pre.trips
            /\ ( /\ TripsOf(pre.trips, rq[b].id) # {}
                 /\ TripsOf(trips, rq[b].id) = {}
                 /\ rq[b].id \in DOMAIN pre.buses
                 /\ \A q \in 1..(b - 1) : ~(rq[q].op = "deleteBus" /\ rq[q].res = 200) )
               => /\ rq[b].res = 200
                  /\ DOMAIN buses = (DOMAIN pre.buses) \ {rq[b].id}

\* the delete of route 1 was answered 409 while trip 1 ran on it, trip 1 was
\* then deleted, and the next delete of route 1 was answered 200
C10_Witness ==
    /\ rq[1].op = "deleteBus" /\ rq[1].id = 1 /\ rq[1].res = 409
    /\ rq[2].op = "deleteTrip" /\ rq[2].id = 1 /\ rq[2].res = 200
    /\ rq[3].op = "deleteBus" /\ rq[3].id = 1 /\ rq[3].res = 200
    /\ 1 \notin DOMAIN buses

\* among requests sent one after the other: trip id existed when b was sent
TripBefore(b, id) ==
    /\ \/ id \in DOMAIN pre.trips
       \/ \E q \in 1..(b - 1) : rq[q].op = "createTrip" /\ rq[q].res = 201 /\ rq[q].out = id
    /\ \A q \in 1..(b - 1) : ~(rq[q].op = "deleteTrip" /\ rq[q].id = id /\ rq[q].res = 200)

\* among requests sent one after the other: passenger id existed when b was sent
PassengerBefore(b, id) ==
    /\ id \in DOMAIN pre.passengers
    /\ \A q \in 1..(b - 1) : ~(rq[q].op = "deletePassenger" /\ rq[q].id = id /\ rq[q].res = 200)

\* the tickets of passenger p in a Ticket collection
TicketsFor(coll, p) == {k \in DOMAIN coll : coll[k].passenger_id = p}

(* C11: among requests sent one after the other, an admin's delete of an     *)
(* existing trip is answered 409 with the trip still there when a ticket has *)
(* its id as trip_id, and 200 with the trip gone otherwise; the delete of an *)
(* existing passenger by its owner or an admin is answered 409 with the      *)
(* passenger still there when a ticket has its id as passenger_id, and 200   *)
(* with the passenger gone otherwise; neither delete is answered 409 without *)
(* such a ticket.                                                            *)
C11_DeleteGuard ==
    \A b \in SeqReq :
        Latest(b) =>
            /\ (rq[b].op = "deleteTrip" /\ isAdmin(rq[b].user) /\ TripBefore(b, rq[b].id)) =>
                 IF TicketsOf(tickets, rq[b].id) # {}
                 THEN rq[b].res = 409 /\ rq[b].id \in DOMAIN trips
                 ELSE rq[b].res = 200 /\ rq[b].id \notin DOMAIN trips
            /\ (rq[b].op = "deleteTrip" /\ rq[b].res = 409) =>
                 TicketsOf(tickets, rq[b].id) # {}
            /\ ( /\ rq[b].op = "deletePassenger" /\ PassengerBefore(b, rq[b].id)
                 /\ \/ isAdmin(rq[b].user)
                    \/ pre.passengers[rq[b].id].owner_id = rq[b].user.userId ) =>
                 IF TicketsFor(tickets, rq[b].id) # {}
                 THEN /\ rq[b].res = 409
                      /\ rq[b].id \in DOMAIN passengers
                      /\ passengers[rq[b].id] = pre.passengers[rq[b].id]
                 ELSE rq[b].res = 200 /\ rq[b].id \notin DOMAIN passengers
            /\ (rq[b].op = "deletePassenger" /\ rq[b].res = 409) =>
                 TicketsFor(tickets, rq[b].id) # {}

\* the owner's delete of a passenger with a ticket was answered 409, then the
\* delete of the trip of that ticket 409, then the delete of a passenger
\* without tickets 200
C11_Witness ==
    /\ rq[1].op = "deletePassenger" /\ rq[1].user.role = "user" /\ rq[1].res = 409
    /\ rq[2].op = "deleteTrip" /\ rq[2].res = 409
    /\ rq[3].op = "deletePassenger" /\ rq[3].res = 200

\* caller u is no admin and does not own passenger p of the store in pre
Stranger(u, p) ==
    /\ u.role # "admin"
    /\ p \in DOMAIN pre.passengers
    /\ pre.passengers[p].owner_id # u.userId

\* request s reads, updates or deletes passenger p, or reads, updates or
\* cancels a ticket of passenger p
OnPassenger(s, p) ==
    \/ s.op \in {"getPassenger", "updatePassenger", "deletePassenger"} /\ s.id = p
    \/ /\ s.op \in {"getTicket", "updateTicket", "cancelTicket"}
       /\ s.id \in DOMAIN pre.tickets
       /\ pre.tickets[s.id].passenger_id = p

\* booking s passes the structural and existence steps against the store in pre
BookReachesAuth(s) ==
    /\ isValidObjectId(s.trip_id) /\ isValidObjectId(s.passenger_id)
    /\ s.seat_number >= 1
    /\ s.trip_id \in DOMAIN pre.trips
    /\ pre.trips[s.trip_id].bus_id \in DOMAIN pre.buses
    /\ s.passenger_id \in DOMAIN pre.passengers

(* C12 as stated: a request of a caller that is neither admin nor owner of   *)
(* passenger p, on p, on a ticket of p, or booking for p, is answered 403    *)
(* and leaves the store as it was.                                           *)
C12_ForbiddenAlways ==
    \A r \in AnyReq : \A p \in DOMAIN pre.passengers :
        ( /\ Answered(r) /\ Stranger(rq[r].user, p)
          /\ OnPassenger(rq[r], p) \/ (rq[r].op = "book" /\ rq[r].passenger_id = p) )
        => rq[r].res = 403 /\ Snapshot = pre

(* C12 amended: such a request on p or on a ticket of p is answered 403; a   *)
(* booking for p is answered 403 when it passes the structural and existence *)
(* steps, and 400 or 404 by those steps otherwise; in every case the store   *)
(* is left as it was.                                                        *)
C12_Forbidden ==
    \A r \in AnyReq : \A p \in DOMAIN pre.passengers :
        (Answered(r) /\ Stranger(rq[r].user, p)) =>
            /\ OnPassenger(rq[r], p) => rq[r].res = 403 /\ Snapshot = pre
            /\ (rq[r].op = "book" /\ rq[r].passenger_id = p) =>
                 /\ BookReachesAuth(rq[r]) => rq[r].res = 403
                 /\ ~BookReachesAuth(rq[r]) => rq[r].res \in {400, 404}
                 /\ Snapshot = pre

\* a user who does not own the passenger has asked to cancel a ticket of it
\* and got 403
C12_Witness ==
    \E r \in AnyReq : \E p \in DOMAIN pre.passengers :
        /\ Answered(r) /\ Stranger(rq[r].user, p)
        /\ rq[r].op = "cancelTicket" /\ OnPassenger(rq[r], p)
        /\ rq[r].res = 403

\* booking s passes the structural, existence and authorization steps against
\* the store in pre
BookAuthorized(s) ==
    /\ s.op = "book" /\ BookReachesAuth(s)
    /\ s.user.role = "admin" \/ pre.passengers[s.passenger_id].owner_id = s.user.userId

\* the route of the trip of booking s, in pre
RouteOf(s) == pre.buses[pre.trips[s.trip_id].bus_id]

(* C13 as stated: a booking that passes the structural, existence and        *)
(* authorization steps and asks for a seat_number above the route's          *)
(* total_seats is answered 400, whatever the trip's available_seats.         *)
C13_RangeAlways ==
    \A r \in AnyReq :
        ( /\ Answered(r) /\ BookAuthorized(rq[r])
          /\ rq[r].seat_number > RouteOf(rq[r]).total_seats )
        => rq[r].res = 400

(* C13 amended: such a booking is answered 400 when the trip's               *)
(* available_seats is above 0 and 409 when it is not, and changes nothing.   *)
C13_Range ==
    \A r \in AnyReq :
        ( /\ Answered(r) /\ BookAuthorized(rq[r])
          /\ rq[r].seat_number > RouteOf(rq[r]).total_seats )
        => /\ rq[r].res = IF pre.trips[rq[r].trip_id].available_seats > 0 THEN 400 ELSE 409
           /\ Snapshot = pre

\* a booking at the route's fare for a seat above the route's total_seats, on
\* a trip with seats left, has been answered 400
C13_Witness ==
    \E r \in AnyReq :
        /\ Answered(r) /\ BookAuthorized(rq[r])
        /\ rq[r].seat_number > RouteOf(rq[r]).total_seats
        /\ rq[r].fare = RouteOf(rq[r]).fare
        /\ pre.trips[rq[r].trip_id].available_seats > 0
        /\ rq[r].res = 400

\* the steps of the validation order that booking s fails against the store in
\* pre: 1 structural, 2 existence, 3 authorization, 4 capacity precheck,
\* 5 seat range, 6 fare match, 7 seat occupancy
FailedSteps(s) ==
    LET structural == /\ isValidObjectId(s.trip_id) /\ isValidObjectId(s.passenger_id)
                      /\ s.seat_number >= 1
        tripOk     == s.trip_id \in DOMAIN pre.trips
        routeOk    == tripOk /\ pre.trips[s.trip_id].bus_id \in DOMAIN pre.buses
        passOk     == s.passenger_id \in DOMAIN pre.passengers
    IN  {n \in 1..7 :
           \/ n = 1 /\ ~structural
           \/ n = 2 /\ ~(routeOk /\ passOk)
           \/ n = 3 /\ passOk /\ s.user.role # "admin"
                    /\ pre.passengers[s.passenger_id].owner_id # s.user.userId
           \/ n = 4 /\ tripOk /\ pre.trips[s.trip_id].available_seats <= 0
           \/ n = 5 /\ routeOk /\ s.seat_number > RouteOf(s).total_seats
           \/ n = 6 /\ routeOk /\ s.fare # RouteOf(s).fare
           \/ n = 7 /\ \E k \in DOMAIN pre.tickets :
                          /\ pre.tickets[k].trip_id = s.trip_id
                          /\ pre.tickets[k].seat_number = s.seat_number}

\* the answers of the steps: ValidationError, NotFound, Forbidden, Conflict,
\* ValidationError, ValidationError, Conflict
StepAnswer == <<400, 404, 403, 409, 400, 400, 409>>

FirstFailed(s) == CHOOSE n \in FailedSteps(s) : \A m \in FailedSteps(s) : n <= m

(* C14: a booking that fails some steps of the validation order is answered  *)
(* with the error of the earliest of them and changes nothing; it does not   *)
(* reach the query for the seat's ticket unless steps 1 to 6 pass, nor the   *)
(* decrement unless all seven pass; a booking that fails none is answered    *)
(* 201.                                                                      *)
C14_ValidationOrder ==
    \A r \in AnyReq :
        rq[r].op = "book" =>
            /\ (Answered(r) /\ FailedSteps(rq[r]) # {}) =>
                 /\ rq[r].res = StepAnswer[FirstFailed(rq[r])]
                 /\ Snapshot = pre
            /\ (Answered(r) /\ FailedSteps(rq[r]) = {}) => rq[r].res = 201
            /\ rq[r].pc = "findSeat" => FailedSteps(rq[r]) \subseteq {7}
            /\ rq[r].pc \in {"reserve", "save"} => FailedSteps(rq[r]) = {}

\* a booking by a user who does not own the passenger, for a seat above the
\* route's total_seats, at a wrong fare, on a sold-out trip, has been answered
\* 403
C14_Witness ==
    \E r \in AnyReq :
        /\ Answered(r) /\ rq[r].op = "book"
        /\ FailedSteps(rq[r]) = {3, 4, 5, 6}
        /\ rq[r].res = 403

(* C15: the release step of a cancellation never takes a trip's              *)
(* available_seats from at most its total_seats to above it (stated for the  *)
(* runs in which cancellations are the only requests).                       *)
C15_ReleaseClamped ==
    [][ \A r \in Req :
          ( /\ rq[r].op = "cancelTicket" /\ rq[r].pc = "release" /\ rq'[r].pc = "done"
            /\ \A q \in Req : rq[q].op \in {"cancelTicket", "none"} ) =>
             \A t \in DOMAIN trips :
                 trips[t].available_seats <= trips[t].total_seats
                    => trips'[t].available_seats <= trips'[t].total_seats ]_vars

(* C16: a cancellation that is about to release or has released a seat has   *)
(* its ticket removed from the store, and of the cancellations of one ticket *)
(* at most one, the one whose delete removed it, releases a seat.            *)
C16_ReleaseAfterDelete ==
    /\ \A r \in Req :
         ( /\ rq[r].op = "cancelTicket"
           /\ rq[r].pc = "release" \/ (Answered(r) /\ rq[r].res = 200) )
         => rq[r].id \notin DOMAIN tickets
    /\ \A k \in DOMAIN pre.tickets :
         Cardinality({r \in Req : /\ rq[r].op = "cancelTicket" /\ rq[r].id = k
                                  /\ Answered(r) /\ rq[r].res = 200}) <= 1

(* C17: a booking whose decrement leaves available_seats negative goes on to *)
(* restore it: its next step adds one to the counter, writes no ticket and   *)
(* answers 409; and once all bookings are answered, every trip's             *)
(* available_seats is at least 0.                                            *)
C17_Compensation ==
    /\ [][ \A r \in Req :
             /\ ( /\ rq[r].pc = "reserve" /\ rq'[r] # rq[r]
                  /\ trips'[rq[r].trip_id].available_seats < 0 )
                => rq'[r].pc = "restore"
             /\ (rq[r].pc = "restore" /\ rq'[r] # rq[r]) =>
                  /\ trips'[rq[r].trip_id].available_seats
                       = trips[rq[r].trip_id].available_seats + 1
                  /\ tickets' = tickets
                  /\ Answered(r)' /\ rq'[r].res = 409 /\ rq'[r].out = Missing ]_vars
    /\ [](AllAnswered => \A t \in DOMAIN trips : trips[t].available_seats >= 0)

\* a booking's decrement has left available_seats negative and the booking
\* is about to restore it
C17_Witness ==
    \E r \in Req :
        rq[r].pc = "restore" /\ trips[rq[r].trip_id].available_seats < 0

(* C18: a trip update leaves available_seats of every trip as it was,        *)
(* whatever the admin's payload.                                              *)
C18_AvailFrame ==
    \A r \in AnyReq :
        (rq[r].op = "updateTrip" /\ Answered(r)) =>
            \A t \in DOMAIN pre.trips :
                /\ t \in DOMAIN trips
                /\ trips[t].available_seats = pre.trips[t].available_seats

\* requests that create, update or delete a route or a trip
Mutations == {"createBus", "updateBus", "deleteBus", "createTrip", "updateTrip", "deleteTrip"}

(* C19: a create, update or delete of a route or a trip by a caller whose    *)
(* role is not admin is answered 403 at its first step and leaves routes and *)
(* trips unchanged.                                                           *)
C19_AdminOnly ==
    \A r \in AnyReq :
        (rq[r].op \in Mutations /\ rq[r].user.role # "admin") =>
            /\ Answered(r) /\ rq[r].res = 403
            /\ buses = pre.buses /\ trips = pre.trips

C19_Witness ==
    /\ \E r \in AnyReq : rq[r].op = "updateTrip" /\ rq[r].user.role # "admin"
                          /\ rq[r].id \in DOMAIN trips
                          /\ \E p \in rq[r].body : p[1] = "$set"
                          /\ rq[r].res = 403

(* C20: a ticket update by a caller who is not admin leaves trip_id,         *)
(* seat_number, fare and journey_date of every ticket as they were, whatever *)
(* the body.                                                                  *)
C20_CriticalFrame ==
    \A r \in AnyReq :
        (rq[r].op = "updateTicket" /\ rq[r].user.role # "admin" /\ Answered(r)) =>
            \A k \in DOMAIN pre.tickets :
                /\ k \in DOMAIN tickets
                /\ tickets[k].trip_id = pre.tickets[k].trip_id
                /\ tickets[k].seat_number = pre.tickets[k].seat_number
                /\ tickets[k].fare = pre.tickets[k].fare
                /\ tickets[k].journey_date = pre.tickets[k].journey_date

(* C21: a trip created by an admin for an existing route carries that        *)
(* route's total_seats as total_seats and as available_seats, and is the     *)
(* only change to the trips; for a route that does not exist the answer is   *)
(* 404 and no trip is created.                                                *)
C21_TripCreated ==
    \A r \in AnyReq :
        (rq[r].op = "createTrip" /\ rq[r].user.role = "admin" /\ Answered(r)) =>
            IF rq[r].id \in DOMAIN pre.buses
            THEN /\ rq[r].res = 201
                 /\ rq[r].out \notin DOMAIN pre.trips
                 /\ DOMAIN trips = DOMAIN pre.trips \cup {rq[r].out}
                 /\ \A t \in DOMAIN pre.trips : trips[t] = pre.trips[t]
                 /\ trips[rq[r].out].bus_id = rq[r].id
                 /\ trips[rq[r].out].total_seats = pre.buses[rq[r].id].total_seats
                 /\ trips[rq[r].out].available_seats = pre.buses[rq[r].id].total_seats
            ELSE /\ rq[r].res = 404
                 /\ trips = pre.trips

C21_Witness ==
    \E r \in AnyReq : /\ rq[r].op = "createTrip" /\ rq[r].res = 201
                      /\ rq[r].out \in DOMAIN trips
                      /\ trips[rq[r].out].available_seats = MaxSeats

\* the passengers of a collection that the caller owns, and the tickets of
\* those passengers
OwnPassengers(user, coll) == Find(coll, OwnedPassengerIds(user, coll))
OwnTickets(user, coll, pcoll) ==
    Find(coll, {k \in DOMAIN coll : coll[k].passenger_id \in OwnedPassengerIds(user, pcoll)})

(* C22: the listing answered to a caller who is not admin holds only the     *)
(* caller's passengers, respectively only tickets of the caller's            *)
(* passengers, and is the listing the same request gets from the store       *)
(* without the records of other accounts.                                    *)
C22_ListingScoped ==
    \A r \in AnyReq :
        (Answered(r) /\ rq[r].user.role # "admin") =>
            /\ rq[r].op = "listPassengers" =>
                 /\ rq[r].res = 200
                 /\ \A k \in DOMAIN rq[r].list :
                        /\ k \in DOMAIN passengers /\ rq[r].list[k] = passengers[k]
                        /\ passengers[k].owner_id = rq[r].user.userId
                 /\ rq[r].list = PassengerQuery(rq[r].user, Get(rq[r].body, "search"),
                                                OwnPassengers(rq[r].user, passengers))
            /\ rq[r].op = "listTickets" =>
                 /\ rq[r].res = 200
                 /\ \A k \in DOMAIN rq[r].list :
                        /\ k \in DOMAIN tickets /\ rq[r].list[k] = tickets[k]
                        /\ tickets[k].passenger_id \in DOMAIN passengers
                        /\ passengers[tickets[k].passenger_id].owner_id = rq[r].user.userId
                 /\ rq[r].list =
                        TicketQuery(rq[r].user,
                                    OwnedPassengerIds(rq[r].user, OwnPassengers(rq[r].user, passengers)),
                                    rq[r].trip_id,
                                    OwnTickets(rq[r].user, tickets, passengers))

C22_Witness ==
    \E r \in AnyReq :
        /\ rq[r].op = "listTickets" /\ Answered(r) /\ rq[r].user.role # "admin"
        /\ DOMAIN rq[r].list # {}
        /\ \E k \in DOMAIN tickets : k \notin DOMAIN rq[r].list

(* C23: a request without credentials is answered 401 and changes nothing.   *)
C23_Unauthenticated ==
    \A r \in AnyReq :
        (Answered(r) /\ rq[r].authorization = "none") =>
            /\ rq[r].res = 401
            /\ Snapshot = pre

(* C24: every booking and every cancellation that has started is answered   *)
(* in the end, and an answered request is answered once: its status never   *)
(* changes afterwards.                                                       *)
C24_Completes ==
    /\ \A r \in Req : InFlight(r) ~> (Answered(r) /\ rq[r].res # 0)
    /\ [][ \A r \in Req : Answered(r) => rq'[r] = rq[r] ]_vars

\* a cancellation and a booking in flight at once, the cancellation's ticket
\* already removed by the other request
C24_Witness ==
    \E r, q \in Req :
        /\ r # q /\ InFlight(r) /\ InFlight(q)
        /\ rq[r].op = "cancelTicket" /\ rq[r].pc = "delete" /\ rq[r].id \notin DOMAIN tickets

(* C25: when the requests are cancellations of one ticket, all of them      *)
(* answered, the ticket's trip has got back one seat if a cancellation was  *)
(* answered 200, and none otherwise.                                         *)
C25_ReleasedOnce ==
    \A k \in DOMAIN pre.tickets :
        (\A r \in Req : rq[r].op = "cancelTicket" /\ rq[r].id = k /\ Answered(r)) =>
            LET t == pre.tickets[k].trip_id
            IN  trips[t].available_seats =
                    pre.trips[t].available_seats
                       + (IF \E r \in Req : rq[r].res = 200 THEN 1 ELSE 0)

(* C26: after a booking or a ticket update by a caller who is not admin,     *)
(* every ticket the request created or moved to another passenger refers to *)
(* a passenger the caller owns.                                              *)
C26_OwnPassenger ==
    \A r \in AnyReq :
        (Answered(r) /\ rq[r].user.role # "admin" /\ rq[r].op \in {"book", "updateTicket"}) =>
            \A k \in DOMAIN tickets :
                (k \notin DOMAIN pre.tickets
                   \/ tickets[k].passenger_id # pre.tickets[k].passenger_id) =>
                    /\ tickets[k].passenger_id \in DOMAIN passengers
                    /\ passengers[tickets[k].passenger_id].owner_id = rq[r].user.userId

(* C27: a trip never has more live tickets than total_seats.                 *)
C27_TicketsWithinSeats ==
    \A t \in DOMAIN trips : Cardinality(TicketsOf(tickets, t)) <= trips[t].total_seats

(* C28: a created passenger's owner_id is the creating caller's userId       *)
(* whatever the body holds, and a passenger update leaves the owner_id of   *)
(* every passenger as it was.                                                *)
C28_OwnerFixed ==
    \A r \in AnyReq :
        Answered(r) =>
            /\ (rq[r].op = "createPassenger" /\ rq[r].res = 201) =>
                 /\ rq[r].out \in DOMAIN passengers
                 /\ passengers[rq[r].out].owner_id = rq[r].user.userId
            /\ rq[r].op = "updatePassenger" =>
                 \A k \in DOMAIN pre.passengers :
                     /\ k \in DOMAIN passengers
                     /\ passengers[k].owner_id = pre.passengers[k].owner_id

====
